---- MODULE Spec2Model ----
(***************************************************************************)
(* Model of js/Calendar.js: the day layout (layOutDay, checkLeft,          *)
(* sortByDuration) and the Calendar constructor that publishes the laid    *)
(* out list in the script-global variable `events`.                        *)
(*                                                                         *)
(* layOutDay(events) works on its parameter, but checkLeft is a top-level  *)
(* function: the name `events` in its body is the script global, which     *)
(* only the Calendar constructor assigns.  The model therefore keeps the   *)
(* global as state and distinguishes a call that is handed the global      *)
(* array itself from a call that is handed a fresh array.                  *)
(*                                                                         *)
(* JavaScript indices are 0-based and are kept 0-based wherever they are   *)
(* stored (the `collisions` lists); At(s, i) reads s[i].                   *)
(***************************************************************************)
EXTENDS Integers, Sequences, FiniteSets, TLC

VARIABLES
    eventsDefined,  \* whether the script global `events` has been assigned
    events,         \* the array the script global `events` refers to
    input,          \* the raw batch (id, start, end) handed to the last call
    outcome,        \* "none", "returned" or "threw": how the last call ended
    aliased,        \* whether the last call was handed the global array
    prevInput,      \* input, outcome and annotations of the call before
    prevOutcome,
    prevAnnotations,
    calls           \* number of Calendar constructions so far

vars == <<eventsDefined, events, input, outcome, aliased,
          prevInput, prevOutcome, prevAnnotations, calls>>

----------------------------------------------------------------------------
(* Bounds *)

\* Spec: times 0..MaxTime, at most MaxEvents events in a batch, ids offset
\* by at most MaxIdBase, at most MaxCalls constructions.
MaxTime == 3
MaxEvents == 2
MaxIdBase == 2
MaxCalls == 3

\* LayoutSpec: times 0..LayMaxTime, at most LayMaxEvents events in the batch.
LayMaxTime == 3
LayMaxEvents == 4

----------------------------------------------------------------------------
(* Program constants *)

TOTAL_WIDTH == 600
MARGIN == 10
DEFAULT_WIDTH == 200

----------------------------------------------------------------------------
(* Helpers for 0-based arrays *)

At(s, i) == s[i + 1]

Max(a, b) == IF a >= b THEN a ELSE b

\* parseInt applied to the quotient of two positive integers: the decimal
\* rendering of the quotient is cut at the decimal point.
ParseIntDiv(num, den) == num \div den

----------------------------------------------------------------------------
(* Inputs *)

Intervals(T) == { <<s, e>> \in (0..T) \X (0..T) : s < e }

\* A batch: events with unique ids (base + position) and start < end.
MkBatch(ivs, base) ==
    [k \in 1..Len(ivs) |-> [id |-> base + k, start |-> ivs[k][1], end |-> ivs[k][2]]]

\* The interval lists of exactly n events over the times 0..T.
IntervalLists(n, T) == [1..n -> Intervals(T)]

\* The batches a page hands to the constructor under Spec.
SpecBatches ==
    UNION { { MkBatch(ivs, base) : ivs \in IntervalLists(n, MaxTime), base \in 0..MaxIdBase } :
            n \in 0..MaxEvents }

Raw(list) ==
    [k \in 1..Len(list) |-> [id |-> list[k].id, start |-> list[k].start, end |-> list[k].end]]

----------------------------------------------------------------------------
(* sortByDuration and Array.prototype.sort *)

sortByDuration(e1, e2) ==
    LET y == e1.end - e1.start
        x == e2.end - e2.start
    IN IF x < y THEN -1 ELSE IF x > y THEN 1 ELSE 0

\* Insert x behind every element that the comparator does not put after it.
RECURSIVE InsertSorted(_, _)
InsertSorted(s, x) ==
    IF s = <<>> THEN <<x>>
    ELSE IF sortByDuration(s[Len(s)], x) <= 0 THEN Append(s, x)
    ELSE Append(InsertSorted(SubSeq(s, 1, Len(s) - 1), x), s[Len(s)])

\* events.sort(sortByDuration): a stable sort.
RECURSIVE SortEvents(_)
SortEvents(s) ==
    IF s = <<>> THEN <<>>
    ELSE InsertSorted(SortEvents(SubSeq(s, 1, Len(s) - 1)), s[Len(s)])

----------------------------------------------------------------------------
(* The memory of one layOutDay call.                                       *)
(*   loc     the parameter `events` of layOutDay (the batch)               *)
(*   glob    the array of the script global `events`                       *)
(*   same    the parameter IS the global array (one array, same objects)   *)
(*   gdef    the global has been assigned                                  *)
(*   threw   an exception ended the call                                  *)
(* An object reference is <<"loc" or "glob", index>>.                      *)

\* The array that the name `events` denotes inside checkLeft.
ScanArr(m) == IF m.same THEN "loc" ELSE "glob"

Scanned(m) == IF m.same THEN m.loc ELSE m.glob

Obj(m, ref) == IF ref[1] = "loc" THEN At(m.loc, ref[2]) ELSE At(m.glob, ref[2])

Put(m, ref, o) ==
    IF ref[1] = "loc"
    THEN [m EXCEPT !.loc[ref[2] + 1] = o]
    ELSE [m EXCEPT !.glob[ref[2] + 1] = o]

\* _event.registerCollision(id)
registerCollision(m, ref, id) ==
    LET o == Obj(m, ref)
        newCollision == \A i \in 1..Len(o.collisions) : o.collisions[i] # id
    IN IF newCollision
       THEN Put(m, ref, [o EXCEPT !.collisions = Append(o.collisions, id)])
       ELSE m

\* The initialization loop of layOutDay.
InitEvent(ev) ==
    [id |-> ev.id, start |-> ev.start, end |-> ev.end,
     left |-> MARGIN, top |-> ev.start, width |-> DEFAULT_WIDTH,
     duration |-> ev.end - ev.start, overlap |-> 0, position |-> 0,
     collisions |-> <<>>, columns |-> 1]

InitPass(list) == [k \in 1..Len(list) |-> InitEvent(list[k])]

Collide(a, b) == a.start < b.end /\ a.end > b.start

RECURSIVE checkLeft(_, _, _), checkLeftLoop(_, _, _, _)
\* One iteration of the for loop of checkLeft, from index i on.
checkLeftLoop(m, ref, index, i) ==
    LET scan == Scanned(m)
        event == Obj(m, ref)
    IN IF i >= Len(scan) THEN m
       ELSE IF At(scan, i).id = event.id THEN m
       ELSE IF Collide(event, At(scan, i))
       THEN LET sref == <<ScanArr(m), i>>
                m1 == registerCollision(m, ref, i)
                m2 == checkLeft(m1, sref, i)
                ev == Obj(m2, ref)
                m3 == Put(m2, ref, [ev EXCEPT !.position = Obj(m2, sref).position + 1])
                m4 == registerCollision(m3, sref, index)
            IN checkLeftLoop(m4, ref, index, i + 1)
       ELSE checkLeftLoop(m, ref, index, i + 1)

\* checkLeft(event, index); the value returned is Obj(result, ref).position.
checkLeft(m, ref, index) == checkLeftLoop(m, ref, index, 0)

\* A slide-back that only fires beyond the second column, whatever the
\* number of collisions (mutation of SlideBack).
SlideBackLate(ev) ==
    IF ev.position > 2 THEN [ev EXCEPT !.position = 0] ELSE ev

\* "slide single collision events back to left"
SlideBack(ev) ==
    IF ev.position > 1 /\ Len(ev.collisions) < 2
    THEN [ev EXCEPT !.position = 0]
    ELSE ev

\* The second loop of layOutDay, from index e on.  With the global never
\* assigned, the read of events.length in checkLeft throws.
RECURSIVE PositionPass(_, _)
PositionPass(m, e) ==
    IF e >= Len(m.loc) THEN m
    ELSE IF ~m.same /\ ~m.gdef THEN [m EXCEPT !.threw = TRUE]
    ELSE LET m1 == checkLeft(m, <<"loc", e>>, e)
             m2 == Put(m1, <<"loc", e>>, SlideBack(At(m1.loc, e)))
         IN PositionPass(m2, e + 1)

\* The inner loop of the third loop: collisions of events[e] from i down to 0.
RECURSIVE ColumnsLoop(_, _, _)
ColumnsLoop(m, e, i) ==
    IF i < 0 THEN m
    ELSE LET c == At(At(m.loc, e).collisions, i)
         IN IF c >= Len(m.loc) THEN [m EXCEPT !.threw = TRUE]
            ELSE LET cols == Max(At(m.loc, e).columns, At(m.loc, c).position + 1)
                     m1 == [m EXCEPT !.loc[e + 1].columns = cols]
                     m2 == [m1 EXCEPT !.loc[c + 1].columns = cols]
                 IN ColumnsLoop(m2, e, i - 1)

\* The third loop of layOutDay, from index e on.
RECURSIVE GeometryPass(_, _)
GeometryPass(m, e) ==
    IF e >= Len(m.loc) THEN m
    ELSE LET m1 == ColumnsLoop(m, e, Len(At(m.loc, e).collisions) - 1)
         IN IF m1.threw THEN m1
            ELSE LET ev == At(m1.loc, e)
                     w == ParseIntDiv(TOTAL_WIDTH, ev.columns)
                     m2 == [m1 EXCEPT !.loc[e + 1].width = w,
                                      !.loc[e + 1].left = ev.position * w + MARGIN]
                 IN GeometryPass(m2, e + 1)

\* layOutDay(batch) while the global refers to glob (same: batch is that array).
layOutDay(batch, glob, gdef, same) ==
    LET m0 == [loc |-> SortEvents(InitPass(batch)), glob |-> glob,
               gdef |-> gdef, same |-> same, threw |-> FALSE]
        m1 == PositionPass(m0, 0)
    IN IF m1.threw THEN m1 ELSE GeometryPass(m1, 0)

----------------------------------------------------------------------------
(* Actions *)

\* What a caller reads of an annotated event.
Annotation(ev) ==
    [id |-> ev.id, column |-> ev.position, columns |-> ev.columns,
     width |-> ev.width, left |-> ev.left, collisions |-> ev.collisions]

Annotations(r) == [k \in 1..Len(r) |-> Annotation(r[k])]

\* The array the last call returned: `events = layOutDay(defaultEvents)` makes
\* the global refer to it.  Meaningful while outcome = "returned".
returned == events

\* new Calendar(defaultEvents), the effect of `events = layOutDay(defaultEvents)`.
Construct(batch, same) ==
    LET m == layOutDay(batch, events, eventsDefined, same)
    IN /\ input' = Raw(batch)
       /\ aliased' = same
       /\ prevInput' = input
       /\ prevOutcome' = outcome
       /\ prevAnnotations' = IF outcome = "returned" THEN Annotations(events) ELSE <<>>
       /\ calls' = calls + 1
       /\ IF m.threw
          THEN /\ outcome' = "threw"
               /\ events' = IF same THEN m.loc ELSE m.glob
               /\ UNCHANGED eventsDefined
          ELSE /\ outcome' = "returned"
               /\ events' = m.loc
               /\ eventsDefined' = TRUE

\* new Calendar([...]) on an array the page has just built.
CalendarFresh(batch) == Construct(batch, FALSE)

\* new Calendar(events): the page hands over the global array itself.
CalendarGlobal ==
    /\ eventsDefined
    /\ Construct(events, TRUE)

Init ==
    /\ eventsDefined = FALSE
    /\ events = <<>>
    /\ input = <<>>
    /\ outcome = "none"
    /\ aliased = FALSE
    /\ prevInput = <<>>
    /\ prevOutcome = "none"
    /\ prevAnnotations = <<>>
    /\ calls = 0

Next ==
    \/ /\ calls < MaxCalls
       /\ \E batch \in SpecBatches : CalendarFresh(batch)
    \/ /\ calls < MaxCalls
       /\ CalendarGlobal

Spec == Init /\ [][Next]_vars

\* The state after `new Calendar([])` on a page that defines nothing else.
LayoutInit ==
    /\ eventsDefined = TRUE
    /\ events = <<>>
    /\ input = <<>>
    /\ outcome = "returned"
    /\ aliased = FALSE
    /\ prevInput = <<>>
    /\ prevOutcome = "none"
    /\ prevAnnotations = <<>>
    /\ calls = 1

\* The behaviours of the program in which, after `new Calendar([])`, one
\* batch is constructed while the global is empty and the page then
\* constructs again from the global array.  Fewer calls than Spec, larger
\* batches: the second construction is the layout of a batch of up to
\* LayMaxEvents events in which checkLeft scans the batch itself.
LayoutNext ==
    \/ /\ calls = 1
       /\ \E n \in 0..LayMaxEvents :
            \E ivs \in IntervalLists(n, LayMaxTime) : CalendarFresh(MkBatch(ivs, 0))
    \/ /\ calls = 2
       /\ CalendarGlobal

LayoutSpec == LayoutInit /\ [][LayoutNext]_vars

----------------------------------------------------------------------------
(* Vocabulary of the properties, over the array the last call returned *)

Idx(r) == 0 .. Len(r) - 1

\* The indices of the events of r that properly overlap the event at i.
Overlapping(r, i) == { j \in Idx(r) : j # i /\ Collide(At(r, i), At(r, j)) }

\* The indices registered in the collisions list of the event at i.
Registered(r, i) ==
    { At(r, i).collisions[k] : k \in 1..Len(At(r, i).collisions) }

\* The horizontal extents [left, left + width) of two events do not meet.
Disjoint(a, b) == a.left + a.width <= b.left \/ b.left + b.width <= a.left

\* The indices reachable from the set S through overlapping events.
RECURSIVE Reach(_, _)
Reach(r, S) ==
    LET T == S \cup UNION { Overlapping(r, i) : i \in S }
    IN IF T = S THEN S ELSE Reach(r, T)

\* The last call returned, and it had been handed the array of the global.
ReturnedGlobal == outcome = "returned" /\ aliased

----------------------------------------------------------------------------
(* C1 *)

\* C1: after layOutDay, any two events whose intervals properly overlap
\* occupy disjoint horizontal extents [left, left + width).  Stated for the
\* calls that are handed the array of the global, where checkLeft scans the
\* batch itself.
C1_DisjointExtents ==
    ReturnedGlobal =>
        \A i \in Idx(returned) : \A j \in Overlapping(returned, i) :
            Disjoint(At(returned, i), At(returned, j))

----------------------------------------------------------------------------
(* C2 *)

\* C2: after layOutDay, every two events of one connected component of the
\* collision relation have the same final columns.  Stated for the calls
\* that are handed the array of the global.
C2_ComponentSharesColumns ==
    ReturnedGlobal =>
        \A i \in Idx(returned) : \A j \in Reach(returned, {i}) :
            At(returned, i).columns = At(returned, j).columns

----------------------------------------------------------------------------
(* C3 *)

\* C3: in the output of layOutDay every event has columns >= 1 and
\* width = floor(600 / columns) for the columns it holds on return.  Stated
\* for the calls that are handed the array of the global.
C3_WidthFromColumns ==
    ReturnedGlobal =>
        \A i \in Idx(returned) :
            /\ At(returned, i).columns >= 1
            /\ At(returned, i).width = TOTAL_WIDTH \div At(returned, i).columns

----------------------------------------------------------------------------
(* C4 *)

\* C4: the result of layOutDay depends only on the events passed: two
\* successive invocations on value-equal input end the same way and return
\* identical column, columns, width, left and collisions for every event.
C4_SameInputSameOutput ==
    (outcome # "none" /\ prevOutcome # "none" /\ input = prevInput) =>
        /\ outcome = prevOutcome
        /\ (outcome = "returned" => Annotations(returned) = prevAnnotations)

----------------------------------------------------------------------------
(* C5 *)

\* C5: after layOutDay, the collisions list of the event at index i holds,
\* each exactly once, precisely the indices j # i of the events that
\* properly overlap it.
C5_CollisionsExact ==
    outcome = "returned" =>
        \A i \in Idx(returned) :
            /\ Registered(returned, i) = Overlapping(returned, i)
            /\ Len(At(returned, i).collisions) = Cardinality(Registered(returned, i))

----------------------------------------------------------------------------
(* C6 *)

\* C6: in the output of layOutDay, an event whose collisions list has fewer
\* than 2 entries never has column > 1.
C6_DegenerateCollapse ==
    outcome = "returned" =>
        \A i \in Idx(returned) :
            Len(At(returned, i).collisions) < 2 => At(returned, i).position <= 1

\* An event with a single collision, registered with an earlier event that
\* sits in column >= 1, so that its resolved column was > 1: it was slid back
\* to column 0.
C6_SlidBack ==
    /\ ReturnedGlobal
    /\ \E i \in Idx(returned) :
        /\ Len(At(returned, i).collisions) = 1
        /\ At(At(returned, i).collisions, 0) < i
        /\ At(returned, At(At(returned, i).collisions, 0)).position >= 1
        /\ At(returned, i).position = 0

\* An event that had one collision and a resolved column > 1 at its own turn
\* (one overlapping event before it, in column >= 1), so was slid back, and
\* was then given a column > 1 again by checkLeft recursing from a later
\* event, which registered itself with it.
C6_ReassignedLater ==
    /\ ReturnedGlobal
    /\ \E i \in Idx(returned) :
        /\ Cardinality({ j \in Overlapping(returned, i) : j < i }) = 1
        /\ \A j \in Overlapping(returned, i) : j < i => At(returned, j).position >= 1
        /\ \E j \in Overlapping(returned, i) : j > i
        /\ At(returned, i).position > 1

----------------------------------------------------------------------------
(* C7 *)

\* C7: layOutDay always completes and returns an annotated list without
\* raising an error, for every finite input.
C7_NeverThrows == outcome # "threw"

----------------------------------------------------------------------------
(* C8 *)

\* C8: when all n >= 1 events of the batch overlap pairwise, the event at
\* index k of the sorted order gets column k, columns = n,
\* width = floor(600 / n) and left = column * width + 10.
C8_Simultaneous ==
    (/\ outcome = "returned"
     /\ \A i \in Idx(returned) : Overlapping(returned, i) = Idx(returned) \ {i}) =>
        \A k \in Idx(returned) :
            /\ At(returned, k).position = k
            /\ At(returned, k).columns = Len(returned)
            /\ At(returned, k).width = TOTAL_WIDTH \div Len(returned)
            /\ At(returned, k).left = k * At(returned, k).width + MARGIN

----------------------------------------------------------------------------
(* C9 *)

\* The greatest index below i of an event overlapping the event at i.
LastBefore(r, i) ==
    CHOOSE j \in Overlapping(r, i) :
        j < i /\ \A k \in Overlapping(r, i) : k < i => k <= j

\* C9: an event with no overlapping event before it in the sorted order has
\* column 0; otherwise, with y the last such event, its column is
\* y.column + 1, except that it is 0 when the event has exactly one collision
\* in total and y.column >= 1.
C9_ColumnRule ==
    outcome = "returned" =>
        \A i \in Idx(returned) :
            IF \A j \in Overlapping(returned, i) : j > i
            THEN At(returned, i).position = 0
            ELSE LET y == At(returned, LastBefore(returned, i))
                 IN At(returned, i).position =
                        IF Cardinality(Overlapping(returned, i)) = 1 /\ y.position >= 1
                        THEN 0
                        ELSE y.position + 1

----------------------------------------------------------------------------
(* C10 *)

\* C10: in the output of layOutDay every event has 0 <= column < columns,
\* left >= 10 and left + width <= 610.
C10_InsideDay ==
    outcome = "returned" =>
        \A i \in Idx(returned) :
            /\ 0 <= At(returned, i).position
            /\ At(returned, i).position < At(returned, i).columns
            /\ At(returned, i).left >= MARGIN
            /\ At(returned, i).left + At(returned, i).width <= TOTAL_WIDTH + MARGIN

----------------------------------------------------------------------------
(* What holds of a call that is handed the array of the global: C5, C8, C9  *)
(* and C10 restricted to those calls.                                       *)

GlobalCall_CollisionsExact == aliased => C5_CollisionsExact

GlobalCall_Simultaneous == aliased => C8_Simultaneous

GlobalCall_ColumnRule == aliased => C9_ColumnRule

GlobalCall_InsideDay == aliased => C10_InsideDay

====
